---- MODULE Spec2Model ----
(***************************************************************************)
(* A model of the `what` terminal-diagnostics tool.                        *)
(*                                                                         *)
(*   src/src/main.rs      TerminalCapture (segmenter, capture sources),    *)
(*                        Diagnostics::write_to_screen, run, main          *)
(*   src/src/terminal.rs  Loading::start                                   *)
(*                                                                         *)
(* Text is modelled as a sequence of one-character strings, so that prefix *)
(* tests, replacement and JSON quoting are computed, not assumed.          *)
(***************************************************************************)
EXTENDS Integers, Sequences, FiniteSets, TLC

VARIABLES
    \* ---- TerminalCapture::from_last_commands (main.rs:108-139)
    snapshot,             \* the lines tmux_capture_lines returned, oldest first
    prompt,               \* the string TerminalCapture::prompt returned
    commands_count,       \* the u8 argument
    overflow_checks,      \* TRUE: build panics on integer overflow; FALSE: wraps
    seg_pc,               \* "idle" | "scan" | "done" | "panic" (overflow)
    scan_left,            \* number of snapshot lines the reverse iterator still holds
    prompt_hit,           \* the u8 counter
    last_commands_lines,  \* the output buffer
    \* ---- Diagnostics::write_to_screen (main.rs:241-288)
    stream_pc,            \* "idle" | "loop" | "ok" | "err" | "panic"
    requests_opened,      \* number of calls of openai_request_stream
    consumed,             \* the events request_stream.next() has yielded so far
    rendered,             \* what each consumed event made stdout print, in order
    stream_error,         \* the message of the anyhow error returned, else <<>>
    \* ---- main and run (main.rs:328-420)
    main_pc,              \* where main/run stands
    panic_hook,           \* TRUE once std::panic::set_hook has run
    raw_mode,             \* TRUE while the terminal is in raw mode
    args,                 \* the parsed Arguments
    terminal_capture,     \* TerminalCapture.lines
    confirm_byte,         \* the byte read from stdin, "" before
    exit_status,          \* "running" | "success" | "failure" | "panic"
    main_error,           \* the message of the error main returns, else <<>>
    command_output,       \* the Output of the command Execute ran
    \* ---- Loading::start (terminal.rs:24-56)
    load_pc,              \* where start stands
    task,                 \* the spawned future: its state and its value
    char_cycle,           \* position of the cycle iterator in LOADING_CHARS
    tty,                  \* what start has written to stdout, in order
    load_result,          \* what start returned or panicked with
    \* ---- TerminalCapture::prompt (main.rs:195-229)
    probe_pc,             \* "idle" | "env" | "spawn" | "select" | "done"
    shell_env,            \* the SHELL environment variable
    shell_child,          \* what became of the shell subprocess
    probe_result          \* what prompt returned

segVars == <<snapshot, prompt, commands_count, overflow_checks, seg_pc,
             scan_left, prompt_hit, last_commands_lines>>

streamVars == <<stream_pc, requests_opened, consumed, rendered, stream_error>>

mainVars == <<main_pc, panic_hook, raw_mode, args, terminal_capture,
              confirm_byte, exit_status, main_error, command_output>>

loadVars == <<load_pc, task, char_cycle, tty, load_result>>

probeVars == <<probe_pc, shell_env, shell_child, probe_result>>

vars == <<segVars, streamVars, mainVars, loadVars, probeVars>>

(***************************************************************************)
(* Bounds of the model.                                                    *)
(***************************************************************************)
MaxLines == 3       \* longest enumerated snapshot
MaxCount == 2       \* largest enumerated small command count
MaxEvents == 3      \* most events one stream yields
MaxRunLines == 2    \* longest snapshot enumerated in a run
MaxProcLines == 1   \* most lines a spawned command writes to one of its pipes
MaxRunEvents == 2   \* most events a stream yields inside a run
MaxFrames == 9      \* most animation frames written in one start
MaxStdout == 3      \* most characters the probed shell writes to stdout

(***************************************************************************)
(* Program constants.                                                      *)
(***************************************************************************)
U8Max == 255        \* largest value of `count: u8` / `prompt_hit = 0u8`
LoadingChars == 8   \* length of Loading::LOADING_CHARS

PROMPT_REPLACE_STR == <<">", ">", ">", " ">>

(***************************************************************************)
(* Text helpers.                                                           *)
(***************************************************************************)
RECURSIVE SeqsUpTo(_, _)
SeqsUpTo(S, n) ==
    IF n = 0 THEN {<<>>}
    ELSE LET shorter == SeqsUpTo(S, n - 1)
         IN  shorter \cup {Append(s, x) : s \in shorter, x \in S}

\* str::starts_with
StartsWith(line, pat) ==
    /\ Len(pat) <= Len(line)
    /\ SubSeq(line, 1, Len(pat)) = pat

\* str::replace: every non-overlapping match, left to right; an empty
\* pattern matches at every character boundary.
RECURSIVE Replace(_, _, _)
Replace(s, from, to) ==
    IF from = <<>>
    THEN IF s = <<>> THEN to
         ELSE to \o <<Head(s)>> \o Replace(Tail(s), from, to)
    ELSE IF s = <<>> THEN <<>>
    ELSE IF StartsWith(s, from)
         THEN to \o Replace(SubSeq(s, Len(from) + 1, Len(s)), from, to)
         ELSE <<Head(s)>> \o Replace(Tail(s), from, to)

\* Vec::reverse
Reverse(s) == [k \in 1..Len(s) |-> s[Len(s) + 1 - k]]

(***************************************************************************)
(* Inputs of the segmenter.                                                *)
(***************************************************************************)
\* blank, output and prompt lines; "$" is the character of the prompt
LineSet ==
    {<<>>, <<"a">>, <<"a", "$">>, <<"$">>, <<"$", "a">>, <<"$", "a", "$">>}
Prompts == {<<>>, <<"$">>}
\* a scrollback of 2^8 prompt lines, and one with an output line in it
LongSnapshots ==
    { [k \in 1..(U8Max + 1) |-> <<"$">>],
      [k \in 1..(U8Max + 2) |-> IF k = 3 THEN <<"a">> ELSE <<"$">>] }
Snapshots == SeqsUpTo(LineSet, MaxLines) \cup LongSnapshots
Counts == (0..MaxCount) \cup {U8Max - 1, U8Max}

(***************************************************************************)
(* TerminalCapture::from_last_commands, one loop iteration per step.       *)
(***************************************************************************)
SegInit ==
    /\ snapshot \in Snapshots
    /\ prompt \in Prompts
    /\ commands_count \in Counts
    /\ overflow_checks \in BOOLEAN
    /\ seg_pc = "scan"
    /\ scan_left = Len(snapshot)
    /\ prompt_hit = 0
    /\ last_commands_lines = <<>>

\* main.rs:133-138: the loop is left, the buffer is reversed and returned
SegFinish(buf) ==
    /\ last_commands_lines' = Reverse(buf)
    /\ seg_pc' = "done"

SegPanic ==
    /\ seg_pc' = "panic"
    /\ UNCHANGED last_commands_lines

\* PromptLineStep with the stop test `prompt_hit == commands_count`
PromptLineStep_StopAtCount(line) ==
    LET hit == prompt_hit + 1
        buf == IF hit > 1
               THEN Append(last_commands_lines,
                           Replace(line, prompt, PROMPT_REPLACE_STR))
               ELSE last_commands_lines
    IN  /\ prompt_hit' = hit
        /\ IF hit = commands_count
           THEN SegFinish(buf)
           ELSE /\ last_commands_lines' = buf
                /\ seg_pc' = "scan"

\* main.rs:115-127: the branch taken for a line that starts with the prompt
PromptLineStep(line) ==
    IF prompt_hit + 1 > U8Max /\ overflow_checks
    THEN \* `prompt_hit += 1` overflows
         /\ SegPanic
         /\ UNCHANGED prompt_hit
    ELSE LET hit == (prompt_hit + 1) % (U8Max + 1)
             buf == IF hit > 1
                    THEN Append(last_commands_lines,
                                Replace(line, prompt, PROMPT_REPLACE_STR))
                    ELSE last_commands_lines
         IN  /\ prompt_hit' = hit
             /\ IF commands_count + 1 > U8Max /\ overflow_checks
                THEN \* `commands_count + 1` overflows
                     /\ seg_pc' = "panic"
                     /\ last_commands_lines' = buf
                ELSE IF hit = (commands_count + 1) % (U8Max + 1)
                THEN SegFinish(buf)
                ELSE /\ last_commands_lines' = buf
                     /\ seg_pc' = "scan"

\* OutputLineStep without the test `prompt_hit > 0`
OutputLineStep_Always(line) ==
    /\ last_commands_lines' = Append(last_commands_lines, line)
    /\ UNCHANGED <<prompt_hit, seg_pc>>

\* main.rs:128-130
OutputLineStep(line) ==
    /\ last_commands_lines' =
          IF prompt_hit > 0 THEN Append(last_commands_lines, line)
                            ELSE last_commands_lines
    /\ UNCHANGED <<prompt_hit, seg_pc>>

\* main.rs:114-131: one iteration of `for line in ... .iter().rev()`
ScanLine ==
    /\ seg_pc = "scan"
    /\ scan_left > 0
    /\ LET line == snapshot[scan_left]
       IN  IF StartsWith(line, prompt)
           THEN PromptLineStep(line)
           ELSE OutputLineStep(line)
    /\ scan_left' = scan_left - 1
    /\ UNCHANGED <<snapshot, prompt, commands_count, overflow_checks>>

\* main.rs:131-138: the iterator is exhausted
ScanEnd ==
    /\ seg_pc = "scan"
    /\ scan_left = 0
    /\ SegFinish(last_commands_lines)
    /\ UNCHANGED <<snapshot, prompt, commands_count, overflow_checks,
                   scan_left, prompt_hit>>

(***************************************************************************)
(* Diagnostics::write_to_screen: the events of the stream are the          *)
(* environment's choice, one per call of request_stream.next().            *)
(***************************************************************************)
QUOTE == "\""
BACKSLASH == "\\"
NEWLINE == "\n"
CR == "\r"

\* serde_json's Display of a JSON string: quoted, with `"`, `\` and the
\* line feed escaped
RECURSIVE JsonEscape(_)
JsonEscape(s) ==
    IF s = <<>> THEN <<>>
    ELSE LET c == Head(s)
             e == IF c = QUOTE THEN <<BACKSLASH, QUOTE>>
                  ELSE IF c = BACKSLASH THEN <<BACKSLASH, BACKSLASH>>
                  ELSE IF c = NEWLINE THEN <<BACKSLASH, "n">>
                  ELSE <<c>>
         IN  e \o JsonEscape(Tail(s))

\* Value::to_string() of gpt_message["delta"]["content"]: indexing a missing
\* field yields Value::Null, which prints as null
ContentToString(data) ==
    IF data.has_content
    THEN <<QUOTE>> \o JsonEscape(data.content) \o <<QUOTE>>
    ELSE <<"n", "u", "l", "l">>

\* str::trim_matches: every leading and every trailing occurrence of c
RECURSIVE TrimStart(_, _)
TrimStart(s, c) ==
    IF s # <<>> /\ Head(s) = c THEN TrimStart(Tail(s), c) ELSE s
TrimMatches(s, c) == Reverse(TrimStart(Reverse(TrimStart(s, c)), c))

\* ErrorMessage with the texts of 500 and 503 exchanged
ErrorMessage_Swapped(code) ==
    CASE code = 401 -> "Incorrect API key provided"
      [] code = 429 -> "Exceeded you current quota or too many requests, please check your plan and billin details"
      [] code = 403 -> "Country, region, or territory not supported"
      [] code = 503 -> "Server had an error while processing your request"
      [] code = 500 -> "The engine is currently overloaded, please try again later"
      [] OTHER -> "unexpected openai error occured"

\* main.rs:271-278
ErrorMessage(code) ==
    CASE code = 401 -> "Incorrect API key provided"
      [] code = 429 -> "Exceeded you current quota or too many requests, please check your plan and billin details"
      [] code = 403 -> "Country, region, or territory not supported"
      [] code = 500 -> "Server had an error while processing your request"
      [] code = 503 -> "The engine is currently overloaded, please try again later"
      [] OTHER -> "unexpected openai error occured"

\* main.rs:279: anyhow::bail!("[{}] {}", code.as_u16(), error_message)
StatusBail(code) == <<"[", ToString(code), "] ", ErrorMessage(code)>>

\* main.rs:282: anyhow::bail!("unexpected openai error response: {:?}", err)
OtherBail == <<"unexpected openai error response: ", "StreamError">>

\* the payloads of message events: text that is no JSON, or a JSON object
\* whose choices[0] has, or lacks, finish_reason and delta.content
NoData ==
    [parses |-> FALSE, finish_reason |-> "absent", has_content |-> FALSE,
     content |-> <<>>]
Json(fin, has, c) ==
    [parses |-> TRUE, finish_reason |-> fin, has_content |-> has, content |-> c]
Fragments == {<<>>, <<"a">>, <<"a", NEWLINE>>, <<QUOTE>>}
Payloads ==
    {NoData, Json("absent", FALSE, <<>>), Json("null", FALSE, <<>>),
     Json("stop", FALSE, <<>>), Json("stop", TRUE, <<"a">>)}
    \cup {Json("null", TRUE, c) : c \in Fragments}
StatusCodes == {401, 403, 429, 500, 503, 418}
Bodies == {"", "{\"error\": \"x\"}"}

OpenEvent == [type |-> "open", data |-> NoData, code |-> 0, body |-> ""]
MessageEvent(d) == [type |-> "message", data |-> d, code |-> 0, body |-> ""]
InvalidStatusCode(c, b) ==
    [type |-> "invalid_status", data |-> NoData, code |-> c, body |-> b]
OtherError == [type |-> "other_error", data |-> NoData, code |-> 0, body |-> ""]
Events ==
    {OpenEvent, OtherError}
    \cup {MessageEvent(d) : d \in Payloads}
    \cup {InvalidStatusCode(c, b) : c \in StatusCodes, b \in Bodies}

StreamInit ==
    /\ stream_pc = "idle"
    /\ requests_opened = 0
    /\ consumed = <<>>
    /\ rendered = <<>>
    /\ stream_error = <<>>

\* main.rs:246: let mut request_stream = self.openai_request_stream(..)
OpenRequestStream ==
    /\ stream_pc = "idle"
    /\ stream_pc' = "loop"
    /\ requests_opened' = requests_opened + 1
    /\ UNCHANGED <<consumed, rendered, stream_error>>

\* main.rs:250-267
OnMessage(data) ==
    IF ~data.parses
    THEN \* serde_json::from_str(..).unwrap()
         /\ stream_pc' = "panic"
         /\ rendered' = Append(rendered, <<>>)
         /\ UNCHANGED stream_error
    ELSE IF data.finish_reason = "stop"
    THEN /\ rendered' = Append(rendered, <<CR, NEWLINE>>)
         /\ stream_pc' = "ok"
         /\ UNCHANGED stream_error
    ELSE /\ rendered' = Append(rendered,
                               TrimMatches(ContentToString(data), QUOTE))
         /\ UNCHANGED <<stream_pc, stream_error>>

\* OnError that opens the request again instead of returning the failure
OnError_Retry(e) ==
    /\ stream_pc' = "idle"
    /\ rendered' = Append(rendered, <<>>)
    /\ stream_error' = IF e.type = "invalid_status" THEN StatusBail(e.code)
                                                    ELSE OtherBail

\* main.rs:268-284
OnError(e) ==
    /\ stream_pc' = "err"
    /\ rendered' = Append(rendered, <<>>)
    /\ stream_error' = IF e.type = "invalid_status" THEN StatusBail(e.code)
                                                    ELSE OtherBail

\* main.rs:247-286: one iteration of `while let Some(event) = ...`
ConsumeEvent(limit) ==
    /\ stream_pc = "loop"
    /\ Len(consumed) < limit
    /\ \E e \in Events :
          /\ consumed' = Append(consumed, e)
          /\ IF e.type = "open"
             THEN /\ rendered' = Append(rendered, <<>>)
                  /\ UNCHANGED <<stream_pc, stream_error>>
             ELSE IF e.type = "message" THEN OnMessage(e.data)
             ELSE OnError(e)
    /\ UNCHANGED requests_opened

\* main.rs:247, 287: next() yields None, the loop ends, Ok(()) is returned
StreamEnds ==
    /\ stream_pc = "loop"
    /\ stream_pc' = "ok"
    /\ UNCHANGED <<requests_opened, consumed, rendered, stream_error>>

NextEvent == ConsumeEvent(MaxEvents)
NextRunEvent == ConsumeEvent(MaxRunEvents)

SegIdle ==
    /\ snapshot = <<>>
    /\ prompt = <<>>
    /\ commands_count = 0
    /\ overflow_checks = FALSE
    /\ seg_pc = "idle"
    /\ scan_left = 0
    /\ prompt_hit = 0
    /\ last_commands_lines = <<>>

(***************************************************************************)
(* main and run.  What the environment decides (process outcomes, the      *)
(* environment variables, the byte typed) is chosen when the code asks.    *)
(***************************************************************************)
RunLineSet == {<<"$">>, <<"a">>}
RunSnapshots == SeqsUpTo(RunLineSet, MaxRunLines)
RunCounts == {0, 1, U8Max}
StdinBytes == {"y", "Y", "n", NEWLINE}
StdoutLines == SeqsUpTo({<<"o">>}, MaxProcLines)
StderrLines == SeqsUpTo({<<"e">>}, MaxProcLines)
\* main.rs:41-71: force belongs to Execute and count to Last
Subcommands ==
    {[name |-> "Execute", force |-> f, count |-> 0] : f \in BOOLEAN}
    \cup {[name |-> "Lines", force |-> FALSE, count |-> 0]}
    \cup {[name |-> "Last", force |-> FALSE, count |-> c] : c \in RunCounts}
ArgumentsSet == [quite : BOOLEAN, confirm : BOOLEAN, commands : Subcommands]
NoArguments ==
    [quite |-> FALSE, confirm |-> FALSE,
     commands |-> [name |-> "Lines", force |-> FALSE, count |-> 0]]

\* no command has been run
NoOutput ==
    [spawned |-> FALSE, success |-> FALSE, utf8 |-> FALSE,
     stdout |-> <<>>, stderr |-> <<>>]

MainIdle ==
    /\ main_pc = "idle"
    /\ panic_hook = FALSE
    /\ raw_mode = FALSE
    /\ args = NoArguments
    /\ terminal_capture = <<>>
    /\ confirm_byte = ""
    /\ exit_status = "running"
    /\ main_error = <<>>
    /\ command_output = NoOutput

\* a hook that only reports the panic
PanicHook_ReportOnly == UNCHANGED raw_mode

\* main.rs:399-404: the hook main installs
PanicHook == raw_mode' = FALSE

\* a panic on main's thread: the hook runs, then the process ends
Panic ==
    /\ IF panic_hook THEN PanicHook ELSE UNCHANGED raw_mode
    /\ main_pc' = "exited"
    /\ exit_status' = "panic"
    /\ UNCHANGED main_error

\* run goes on
Proceed(pc) ==
    /\ main_pc' = pc
    /\ UNCHANGED <<raw_mode, exit_status, main_error>>

Ok == <<>>
\* the errors run returns
NO_TMUX == <<"process must run inside TMUX">>
TMUX_SPAWN == <<"couldn't spawn tmux process">>
TMUX_STATUS == <<"tmux process existed with error status code">>
PROCESS_SPAWN == <<"couldn't spawn process">>
PROCESS_SUCCEEDED == <<"process didn't exit with error status code, aborting">>
NO_SHELL == <<"couldn't get the current shell from environment variable SHELL">>
UNSUPPORTED_SHELL == <<"unsupported shell to get prompt from">>
NO_CWD == <<"couldn't get the current working directory">>
SHELL_SPAWN == <<"couldn't fetch shell prompt">>
PROMPT_UTF8 == <<"invalid utf-8 sequence">>
NO_LAST_LINE == <<"couldn't get last line in terminal prompt output">>
EMPTY_CAPTURE == <<"couldn't capture anything from the terminal, is SHELL env variable set correctly?">>
STDIN_READ == <<"couldn't read from stdin">>
RAW_MODE == <<"couldn't enable raw mode">>

\* main.rs:409-419: what main does with the result of run: inspect_err and
\* map_err on Err(err), and_then on Ok (err = Ok)
MainReturn(err) ==
    /\ raw_mode' = FALSE
    /\ main_pc' = "exited"
    /\ exit_status' = IF err = Ok THEN "success" ELSE "failure"
    /\ main_error' = err

\* main.rs:398-404
SetPanicHook ==
    /\ main_pc = "start"
    /\ panic_hook' = TRUE
    /\ main_pc' = "parse"
    /\ UNCHANGED <<raw_mode, args, terminal_capture, confirm_byte, exit_status,
                   main_error>>
    /\ UNCHANGED command_output
    /\ UNCHANGED <<segVars, streamVars, loadVars, probeVars>>

\* main.rs:406-407: Arguments::parse, enable_raw_mode
EnableRawMode ==
    /\ main_pc = "parse"
    /\ args' \in ArgumentsSet
    /\ \E enabled \in BOOLEAN :
          IF enabled
          THEN /\ raw_mode' = TRUE
               /\ main_pc' = "capture"
               /\ UNCHANGED <<exit_status, main_error>>
          ELSE \* `?` leaves main before run is called
               /\ main_pc' = "exited"
               /\ exit_status' = "failure"
               /\ main_error' = RAW_MODE
               /\ UNCHANGED raw_mode
    /\ UNCHANGED <<panic_hook, terminal_capture, confirm_byte>>
    /\ UNCHANGED command_output
    /\ UNCHANGED <<segVars, streamVars, loadVars, probeVars>>

\* main.rs:169-190, its outcomes
TmuxOutcomes == {"no_tmux", "spawn_failed", "bad_status", "invalid_utf8", "ok"}
TmuxError(tmux) ==
    CASE tmux = "no_tmux" -> NO_TMUX
      [] tmux = "spawn_failed" -> TMUX_SPAWN
      [] tmux = "bad_status" -> TMUX_STATUS

\* main.rs:195-229, its outcomes
PromptOutcomes ==
    {"no_shell", "unsupported_shell", "no_cwd", "spawn_failed", "invalid_utf8",
     "no_last_line", "ok"}
PromptError(probe) ==
    CASE probe = "no_shell" -> NO_SHELL
      [] probe = "unsupported_shell" -> UNSUPPORTED_SHELL
      [] probe = "no_cwd" -> NO_CWD
      [] probe = "spawn_failed" -> SHELL_SPAWN
      [] probe = "invalid_utf8" -> PROMPT_UTF8
      [] probe = "no_last_line" -> NO_LAST_LINE

\* main.rs:91-94 and 334
FromLines ==
    /\ main_pc = "capture"
    /\ args.commands.name = "Lines"
    /\ \E tmux \in TmuxOutcomes, lines \in RunSnapshots :
          IF tmux = "ok"
          THEN /\ terminal_capture' = lines
               /\ Proceed("check_empty")
          ELSE IF tmux = "invalid_utf8"
          THEN Panic /\ UNCHANGED terminal_capture
          ELSE MainReturn(TmuxError(tmux)) /\ UNCHANGED terminal_capture
    /\ UNCHANGED <<panic_hook, args, confirm_byte>>
    /\ UNCHANGED command_output
    /\ UNCHANGED <<segVars, streamVars, loadVars, probeVars>>

\* main.rs:141-166, its outcomes
FromCommandOutcomes == {"no_words", "spawn_failed", "invalid_utf8", "ok"}

\* MustAbort that forgets the force flag
MustAbort_IgnoreForce(force, success) == success

\* main.rs:151: if !force && result.status.success()
MustAbort(force, success) == ~force /\ success

\* main.rs:141-166 and 331-333
FromCommand ==
    /\ main_pc = "capture"
    /\ args.commands.name = "Execute"
    /\ \E proc \in FromCommandOutcomes, success \in BOOLEAN,
          out \in StdoutLines, err \in StderrLines :
          IF proc = "no_words"
          THEN \* parts.split_at(1) on an empty slice
               /\ Panic
               /\ UNCHANGED <<terminal_capture, command_output>>
          ELSE IF proc = "spawn_failed"
          THEN /\ MainReturn(PROCESS_SPAWN)
               /\ UNCHANGED <<terminal_capture, command_output>>
          ELSE /\ command_output' =
                     [spawned |-> TRUE, success |-> success,
                      utf8 |-> proc # "invalid_utf8",
                      stdout |-> out, stderr |-> err]
               /\ IF MustAbort(args.commands.force, success)
                  THEN MainReturn(PROCESS_SUCCEEDED)
                       /\ UNCHANGED terminal_capture
                  ELSE IF proc = "invalid_utf8"
                  THEN \* expect("subprocess output contains invalid utf-8")
                       Panic /\ UNCHANGED terminal_capture
                  ELSE /\ terminal_capture' = out \o err
                       /\ Proceed("check_empty")
    /\ UNCHANGED <<panic_hook, args, confirm_byte>>
    /\ UNCHANGED <<segVars, streamVars, loadVars, probeVars>>

\* main.rs:108-114 and 335-337: the prompt probe, then the tmux capture
FromLastCommandsBegin ==
    /\ main_pc = "capture"
    /\ args.commands.name = "Last"
    /\ \E probe \in PromptOutcomes, p \in Prompts,
          tmux \in TmuxOutcomes, lines \in RunSnapshots :
          IF probe = "ok" /\ tmux = "ok"
          THEN /\ prompt' = p
               /\ snapshot' = lines
               /\ commands_count' = args.commands.count
               /\ scan_left' = Len(lines)
               /\ seg_pc' = "scan"
               /\ Proceed("segment")
          ELSE /\ IF probe # "ok" THEN MainReturn(PromptError(probe))
                  ELSE IF tmux = "invalid_utf8" THEN Panic
                  ELSE MainReturn(TmuxError(tmux))
               /\ UNCHANGED <<prompt, snapshot, commands_count, scan_left,
                              seg_pc>>
    /\ UNCHANGED <<overflow_checks, prompt_hit, last_commands_lines>>
    /\ UNCHANGED <<panic_hook, args, terminal_capture, confirm_byte>>
    /\ UNCHANGED command_output
    /\ UNCHANGED <<streamVars, loadVars, probeVars>>

\* main.rs:136-138 and 336: from_last_commands returns (its locals are
\* dropped) or has panicked
FromLastCommandsEnd ==
    /\ main_pc = "segment"
    /\ seg_pc \in {"done", "panic"}
    /\ IF seg_pc = "done"
       THEN /\ terminal_capture' = last_commands_lines
            /\ Proceed("check_empty")
       ELSE Panic /\ UNCHANGED terminal_capture
    /\ snapshot' = <<>>
    /\ prompt' = <<>>
    /\ commands_count' = 0
    /\ seg_pc' = "idle"
    /\ scan_left' = 0
    /\ prompt_hit' = 0
    /\ last_commands_lines' = <<>>
    /\ UNCHANGED overflow_checks
    /\ UNCHANGED <<panic_hook, args, confirm_byte>>
    /\ UNCHANGED command_output
    /\ UNCHANGED <<streamVars, loadVars, probeVars>>

\* CheckEmpty without the test of main.rs:340
CheckEmpty_NoTest ==
    /\ main_pc = "check_empty"
    /\ Proceed(IF ~args.quite THEN "display" ELSE "diagnose")
    /\ UNCHANGED <<panic_hook, args, terminal_capture, confirm_byte>>
    /\ UNCHANGED command_output
    /\ UNCHANGED <<segVars, streamVars, loadVars, probeVars>>

\* main.rs:340-344
CheckEmpty ==
    /\ main_pc = "check_empty"
    /\ IF Len(terminal_capture) = 0
       THEN MainReturn(EMPTY_CAPTURE)
       ELSE Proceed(IF ~args.quite THEN "display" ELSE "diagnose")
    /\ UNCHANGED <<panic_hook, args, terminal_capture, confirm_byte>>
    /\ UNCHANGED command_output
    /\ UNCHANGED <<segVars, streamVars, loadVars, probeVars>>

\* Confirm that takes Enter for the default answer of "[Y/n]"
Confirm_EnterIsYes ==
    /\ main_pc = "display"
    /\ IF args.confirm
       THEN Proceed("diagnose") /\ UNCHANGED confirm_byte
       ELSE \E read \in BOOLEAN, byte \in StdinBytes :
               IF ~read
               THEN MainReturn(STDIN_READ) /\ UNCHANGED confirm_byte
               ELSE /\ confirm_byte' = byte
                    /\ IF byte \notin {"y", "Y", NEWLINE}
                       THEN MainReturn(Ok)
                       ELSE Proceed("diagnose")
    /\ UNCHANGED <<panic_hook, args, terminal_capture>>
    /\ UNCHANGED command_output
    /\ UNCHANGED <<segVars, streamVars, loadVars, probeVars>>

\* main.rs:346-382: show the capture, ask for confirmation
Confirm ==
    /\ main_pc = "display"
    /\ IF args.confirm
       THEN Proceed("diagnose") /\ UNCHANGED confirm_byte
       ELSE \E read \in BOOLEAN, byte \in StdinBytes :
               IF ~read
               THEN \* read_exact failed
                    MainReturn(STDIN_READ) /\ UNCHANGED confirm_byte
               ELSE /\ confirm_byte' = byte
                    /\ IF byte \notin {"y", "Y"}
                       THEN \* "aborting...", return Ok(())
                            MainReturn(Ok)
                       ELSE Proceed("diagnose")
    /\ UNCHANGED <<panic_hook, args, terminal_capture>>
    /\ UNCHANGED command_output
    /\ UNCHANGED <<segVars, streamVars, loadVars, probeVars>>

\* main.rs:385-389: env::var("OPENAI_TOKEN").unwrap()
NewDiagnostics ==
    /\ main_pc = "diagnose"
    /\ \E token_set \in BOOLEAN :
          IF token_set THEN Proceed("write_to_screen") ELSE Panic
    /\ UNCHANGED <<panic_hook, args, terminal_capture, confirm_byte>>
    /\ UNCHANGED command_output
    /\ UNCHANGED <<segVars, streamVars, loadVars, probeVars>>

\* main.rs:390-393: write_to_screen has returned or panicked
WriteToScreenEnd ==
    /\ main_pc = "write_to_screen"
    /\ stream_pc \in {"ok", "err", "panic"}
    /\ IF stream_pc = "panic" THEN Panic
       ELSE MainReturn(IF stream_pc = "ok" THEN Ok ELSE stream_error)
    /\ UNCHANGED <<panic_hook, args, terminal_capture, confirm_byte>>
    /\ UNCHANGED command_output
    /\ UNCHANGED <<segVars, streamVars, loadVars, probeVars>>

(***************************************************************************)
(* TerminalCapture::prompt: the probe that asks the user's shell for its   *)
(* prompt.  A path is a sequence of names and "/"; the output of the shell *)
(* is a sequence of characters in which ESC stands for one ANSI escape     *)
(* sequence.                                                               *)
(***************************************************************************)
ESC == "ESC"
SLASH == "/"

\* str::split: the pieces between the separators, empty ones included
RECURSIVE Split(_, _)
Split(s, sep) ==
    IF \A k \in 1..Len(s) : s[k] # sep
    THEN <<s>>
    ELSE LET k == CHOOSE i \in 1..Len(s) :
                      /\ s[i] = sep
                      /\ \A j \in 1..(i - 1) : s[j] # sep
         IN  <<SubSeq(s, 1, k - 1)>> \o Split(SubSeq(s, k + 1, Len(s)), sep)

\* str::split_terminator: split, without the empty piece after a final
\* separator
SplitTerminator(s, sep) ==
    LET pieces == Split(s, sep)
    IN  IF pieces[Len(pieces)] = <<>>
        THEN SubSeq(pieces, 1, Len(pieces) - 1)
        ELSE pieces

\* Iterator::last
Last(pieces) == pieces[Len(pieces)]

\* strip_ansi_escapes::strip_str
StripAnsi(s) == SelectSeq(s, LAMBDA c : c # ESC)

\* main.rs:199: shell.split_terminator('/').last().unwrap_or("")
Basename(shell) ==
    LET parts == SplitTerminator(shell, SLASH)
    IN  IF parts = <<>> THEN <<>> ELSE Last(parts)

\* main.rs:200-201: the shells the match has an arm for
SupportedShells == {<<"zsh">>, <<"bash">>, <<"sh">>}

\* values of SHELL
ShellPaths ==
    { <<SLASH, "bin", SLASH, "zsh">>, <<SLASH, "bin", SLASH, "bash">>,
      <<SLASH, "bin", SLASH, "sh">>, <<SLASH, "bin", SLASH, "fish">>,
      <<"zsh">>, <<SLASH, "bin", SLASH, "sh", SLASH>>, <<>> }
ShellEnvs ==
    {[set |-> FALSE, value |-> <<>>]}
    \cup {[set |-> TRUE, value |-> p] : p \in ShellPaths}

\* what the shell writes to stdout: prompt and banner characters, newlines
\* and escape sequences
StdoutChars == {"$", "b", NEWLINE, ESC}
ShellStdouts == SeqsUpTo(StdoutChars, MaxStdout)

NoChild ==
    [cwd |-> FALSE, spawned |-> FALSE, success |-> FALSE, utf8 |-> FALSE,
     stdout |-> <<>>]
NoResult == [kind |-> "none", error |-> <<>>, prompt |-> <<>>]
ProbeErr(msg) == [kind |-> "err", error |-> msg, prompt |-> <<>>]
ProbeOk(p) == [kind |-> "ok", error |-> <<>>, prompt |-> p]

ProbeIdle ==
    /\ probe_pc = "idle"
    /\ shell_env = [set |-> FALSE, value |-> <<>>]
    /\ shell_child = NoChild
    /\ probe_result = NoResult

ProbeInit ==
    /\ probe_pc = "env"
    /\ shell_env \in ShellEnvs
    /\ shell_child = NoChild
    /\ probe_result = NoResult

\* main.rs:196-203: read SHELL, choose the command by the shell's basename
ReadShell ==
    /\ probe_pc = "env"
    /\ IF ~shell_env.set
       THEN /\ probe_result' = ProbeErr(NO_SHELL)
            /\ probe_pc' = "done"
       ELSE IF Basename(shell_env.value) \notin SupportedShells
       THEN /\ probe_result' = ProbeErr(UNSUPPORTED_SHELL \o shell_env.value)
            /\ probe_pc' = "done"
       ELSE /\ probe_pc' = "spawn"
            /\ UNCHANGED probe_result
    /\ UNCHANGED <<shell_env, shell_child>>

\* main.rs:208-213: current_dir, then the shell runs to its end; its exit
\* status is in the Output and is not looked at
SpawnShell ==
    /\ probe_pc = "spawn"
    /\ \E cwd \in BOOLEAN, spawned \in BOOLEAN, success \in BOOLEAN,
          utf8 \in BOOLEAN, stdout \in ShellStdouts :
          IF ~cwd
          THEN /\ shell_child' = NoChild
               /\ probe_result' = ProbeErr(NO_CWD)
               /\ probe_pc' = "done"
          ELSE IF ~spawned
          THEN /\ shell_child' = [NoChild EXCEPT !.cwd = TRUE]
               /\ probe_result' = ProbeErr(SHELL_SPAWN)
               /\ probe_pc' = "done"
          ELSE /\ shell_child' =
                     [cwd |-> TRUE, spawned |-> TRUE, success |-> success,
                      utf8 |-> utf8, stdout |-> stdout]
               /\ probe_pc' = "select"
               /\ UNCHANGED probe_result
    /\ UNCHANGED shell_env

\* main.rs:218-228: the last line of stdout, with its escapes stripped
SelectPrompt ==
    /\ probe_pc = "select"
    /\ probe_result' =
          IF ~shell_child.utf8 THEN ProbeErr(PROMPT_UTF8)
          ELSE LET lines == SplitTerminator(shell_child.stdout, NEWLINE)
               IN  IF lines = <<>> THEN ProbeErr(NO_LAST_LINE)
                   ELSE ProbeOk(StripAnsi(Last(lines)))
    /\ probe_pc' = "done"
    /\ UNCHANGED <<shell_env, shell_child>>

(***************************************************************************)
(* Loading::start: the foreground loop and the spawned task interleave.    *)
(***************************************************************************)
TaskValues == {"v1", "v2"}
NoValue == "none"
COMPLETE_MESSAGE == "complete_message"
ERROR_MESSAGE == "error_message"
JOIN_ERROR_MESSAGE == "corotine issue fetching terminal output"

Frame(glyph) == [kind |-> "frame", glyph |-> glyph]
ClearLine == [kind |-> "clear", glyph |-> 0]
CompleteLine == [kind |-> "complete", glyph |-> 0]

LoadIdle ==
    /\ load_pc = "idle"
    /\ task = [state |-> "unspawned", value |-> NoValue]
    /\ char_cycle = 0
    /\ tty = <<>>
    /\ load_result = [kind |-> "none", value |-> NoValue]

LoadInit ==
    /\ load_pc = "spawn"
    /\ task = [state |-> "unspawned", value |-> NoValue]
    /\ char_cycle = 0
    /\ tty = <<>>
    /\ load_result = [kind |-> "none", value |-> NoValue]

\* terminal.rs:32: tokio::task::spawn(future)
Spawn ==
    /\ load_pc = "spawn"
    /\ task' = [state |-> "running", value |-> NoValue]
    /\ load_pc' = "check"
    /\ UNCHANGED <<char_cycle, tty, load_result>>

\* the spawned future ends: Ok(value), Err, or a panic inside the task
TaskCompletes ==
    /\ task.state = "running"
    /\ \/ \E v \in TaskValues : task' = [state |-> "ok", value |-> v]
       \/ task' = [state |-> "err", value |-> NoValue]
       \/ task' = [state |-> "panicked", value |-> NoValue]
    /\ UNCHANGED <<load_pc, char_cycle, tty, load_result>>

\* terminal.rs:34: while !task.is_finished()
CheckFinished ==
    /\ load_pc = "check"
    /\ load_pc' = IF task.state = "running" THEN "frame" ELSE "clear"
    /\ UNCHANGED <<task, char_cycle, tty, load_result>>

\* terminal.rs:35-41: the next glyph of the cycle and the loading message.
\* The loop has no bound of its own; tty records the first MaxFrames frames.
WriteFrame ==
    /\ load_pc = "frame"
    /\ tty' = IF Len(tty) < MaxFrames
              THEN Append(tty, Frame(char_cycle + 1))
              ELSE tty
    /\ char_cycle' = (char_cycle + 1) % LoadingChars
    /\ load_pc' = "sleep"
    /\ UNCHANGED <<task, load_result>>

\* Wake with a timeout: after a few frames the loop is given up
Wake_TimesOut ==
    /\ load_pc = "sleep"
    /\ load_pc' = IF Len(tty) >= 3 THEN "clear" ELSE "check"
    /\ UNCHANGED <<task, char_cycle, tty, load_result>>

\* terminal.rs:42: the sleep of 100 ms is over
Wake ==
    /\ load_pc = "sleep"
    /\ load_pc' = "check"
    /\ UNCHANGED <<task, char_cycle, tty, load_result>>

\* ClearCurrentLine that leaves the last frame on the line
ClearCurrentLine_Skipped ==
    /\ load_pc = "clear"
    /\ load_pc' = "join"
    /\ UNCHANGED <<task, char_cycle, tty, load_result>>

\* terminal.rs:44
ClearCurrentLine ==
    /\ load_pc = "clear"
    /\ tty' = Append(tty, ClearLine)
    /\ load_pc' = "join"
    /\ UNCHANGED <<task, char_cycle, load_result>>

\* Join with `map` in place of `and_then`: the complete message is written
\* for a failed task as well
Join_AlwaysComplete ==
    /\ load_pc = "join"
    /\ task.state # "running"
    /\ IF task.state = "panicked"
       THEN /\ load_pc' = "panicked"
            /\ load_result' = [kind |-> "panic", value |-> JOIN_ERROR_MESSAGE]
            /\ UNCHANGED tty
       ELSE /\ tty' = Append(tty, CompleteLine)
            /\ IF task.state = "ok"
               THEN /\ load_pc' = "returned"
                    /\ load_result' = [kind |-> "value", value |-> task.value]
               ELSE /\ load_pc' = "panicked"
                    /\ load_result' = [kind |-> "panic", value |-> ERROR_MESSAGE]
    /\ UNCHANGED <<task, char_cycle>>

\* terminal.rs:46-55: task.await, then the outcome
Join ==
    /\ load_pc = "join"
    /\ task.state # "running"
    /\ IF task.state = "ok"
       THEN /\ tty' = Append(tty, CompleteLine)
            /\ load_pc' = "returned"
            /\ load_result' = [kind |-> "value", value |-> task.value]
       ELSE /\ load_pc' = "panicked"
            /\ load_result' =
                  [kind |-> "panic",
                   value |-> IF task.state = "err" THEN ERROR_MESSAGE
                                                   ELSE JOIN_ERROR_MESSAGE]
            /\ UNCHANGED tty
    /\ UNCHANGED <<task, char_cycle>>

(***************************************************************************)
(* Specifications.                                                         *)
(***************************************************************************)
SegNext ==
    \/ ScanLine /\ UNCHANGED <<streamVars, mainVars, loadVars, probeVars>>
    \/ ScanEnd /\ UNCHANGED <<streamVars, mainVars, loadVars, probeVars>>

InitSeg == SegInit /\ StreamInit /\ MainIdle /\ LoadIdle /\ ProbeIdle

SpecSeg == InitSeg /\ [][SegNext]_vars

StreamNext ==
    \/ OpenRequestStream /\ UNCHANGED <<segVars, mainVars, loadVars, probeVars>>
    \/ NextEvent /\ UNCHANGED <<segVars, mainVars, loadVars, probeVars>>
    \/ StreamEnds /\ UNCHANGED <<segVars, mainVars, loadVars, probeVars>>

InitStream == SegIdle /\ StreamInit /\ MainIdle /\ LoadIdle /\ ProbeIdle

SpecStream == InitStream /\ [][StreamNext]_vars

InitMain ==
    /\ snapshot = <<>>
    /\ prompt = <<>>
    /\ commands_count = 0
    /\ overflow_checks \in BOOLEAN
    /\ seg_pc = "idle"
    /\ scan_left = 0
    /\ prompt_hit = 0
    /\ last_commands_lines = <<>>
    /\ LoadIdle
    /\ ProbeIdle
    /\ StreamInit
    /\ main_pc = "start"
    /\ panic_hook = FALSE
    /\ raw_mode = FALSE
    /\ args = NoArguments
    /\ terminal_capture = <<>>
    /\ confirm_byte = ""
    /\ exit_status = "running"
    /\ main_error = <<>>
    /\ command_output = NoOutput

MainNext ==
    \/ SetPanicHook
    \/ EnableRawMode
    \/ FromLines
    \/ FromCommand
    \/ FromLastCommandsBegin
    \/ main_pc = "segment" /\ ScanLine
          /\ UNCHANGED <<streamVars, mainVars, loadVars, probeVars>>
    \/ main_pc = "segment" /\ ScanEnd
          /\ UNCHANGED <<streamVars, mainVars, loadVars, probeVars>>
    \/ FromLastCommandsEnd
    \/ CheckEmpty
    \/ Confirm
    \/ NewDiagnostics
    \/ main_pc = "write_to_screen" /\ OpenRequestStream
          /\ UNCHANGED <<segVars, mainVars, loadVars, probeVars>>
    \/ main_pc = "write_to_screen" /\ NextRunEvent
          /\ UNCHANGED <<segVars, mainVars, loadVars, probeVars>>
    \/ main_pc = "write_to_screen" /\ StreamEnds
          /\ UNCHANGED <<segVars, mainVars, loadVars, probeVars>>
    \/ WriteToScreenEnd

SpecMain == InitMain /\ [][MainNext]_vars

InitLoad == SegIdle /\ StreamInit /\ MainIdle /\ LoadInit /\ ProbeIdle

LoadNext ==
    \/ Spawn /\ UNCHANGED <<segVars, streamVars, mainVars, probeVars>>
    \/ TaskCompletes /\ UNCHANGED <<segVars, streamVars, mainVars, probeVars>>
    \/ CheckFinished /\ UNCHANGED <<segVars, streamVars, mainVars, probeVars>>
    \/ WriteFrame /\ UNCHANGED <<segVars, streamVars, mainVars, probeVars>>
    \/ Wake /\ UNCHANGED <<segVars, streamVars, mainVars, probeVars>>
    \/ ClearCurrentLine /\ UNCHANGED <<segVars, streamVars, mainVars, probeVars>>
    \/ Join /\ UNCHANGED <<segVars, streamVars, mainVars, probeVars>>

SpecLoad == InitLoad /\ [][LoadNext]_vars

\* the steps of start itself: the runtime polls start whenever it can go
\* on (the timer of the sleep fires, the finished task wakes its join
\* handle); nothing makes the spawned future complete
StartSteps ==
    \/ Spawn /\ UNCHANGED <<segVars, streamVars, mainVars, probeVars>>
    \/ CheckFinished /\ UNCHANGED <<segVars, streamVars, mainVars, probeVars>>
    \/ WriteFrame /\ UNCHANGED <<segVars, streamVars, mainVars, probeVars>>
    \/ Wake /\ UNCHANGED <<segVars, streamVars, mainVars, probeVars>>
    \/ ClearCurrentLine /\ UNCHANGED <<segVars, streamVars, mainVars, probeVars>>
    \/ Join /\ UNCHANGED <<segVars, streamVars, mainVars, probeVars>>

SpecLoadFair == InitLoad /\ [][LoadNext]_vars /\ WF_vars(StartSteps)

InitPrompt == SegIdle /\ StreamInit /\ MainIdle /\ LoadIdle /\ ProbeInit

PromptNext ==
    \/ ReadShell /\ UNCHANGED <<segVars, streamVars, mainVars, loadVars>>
    \/ SpawnShell /\ UNCHANGED <<segVars, streamVars, mainVars, loadVars>>
    \/ SelectPrompt /\ UNCHANGED <<segVars, streamVars, mainVars, loadVars>>

SpecPrompt == InitPrompt /\ [][PromptNext]_vars

(***************************************************************************)
(* Vocabulary of the segmentation claims.                                  *)
(***************************************************************************)
\* positions of the snapshot lines that start with the prompt
PromptIdx == {k \in 1..Len(snapshot) : StartsWith(snapshot[k], prompt)}
PromptLines == Cardinality(PromptIdx)
Newest(idx) == CHOOSE k \in idx : \A j \in idx : j <= k
Oldest(idx) == CHOOSE k \in idx : \A j \in idx : k <= j
\* the n-th newest position of idx
NthNewest(idx, n) == CHOOSE k \in idx : Cardinality({j \in idx : j >= k}) = n
SegEnded == seg_pc \in {"done", "panic"}

\* the returned lines are the snapshot lines first..last, in snapshot order:
\* output lines verbatim, prompt lines rewritten to begin with the marker
ReturnsRange(idx, first, last) ==
    /\ seg_pc = "done"
    /\ Len(last_commands_lines) = last - first + 1
    /\ \A k \in first..last :
          LET got == last_commands_lines[k - first + 1]
          IN  IF k \in idx
              THEN StartsWith(got, PROMPT_REPLACE_STR)
              ELSE got = snapshot[k]

\* C1: with M prompt lines and 1 <= N <= M-1 the segmenter returns exactly
\* the N command blocks that lie between the (N+1)-th newest prompt line and
\* the newest prompt line, each block led by its rewritten prompt line, in
\* the snapshot's oldest-first order.
C1_ExactlyNBlocks ==
    SegEnded =>
        LET idx == PromptIdx
        IN  (1 <= commands_count /\ commands_count <= Cardinality(idx) - 1)
            => LET first == NthNewest(idx, commands_count + 1)
                   last == Newest(idx) - 1
               IN  /\ ReturnsRange(idx, first, last)
                   /\ Cardinality(idx \cap (first..last)) = commands_count

\* C2: with N >= M the segmenter returns without error all available blocks
\* and no snapshot line older than the oldest prompt line.
C2_PartialNothingOlder ==
    SegEnded =>
        LET idx == PromptIdx
        IN  commands_count >= Cardinality(idx)
            => /\ seg_pc = "done"
               /\ IF idx = {}
                  THEN last_commands_lines = <<>>
                  ELSE ReturnsRange(idx, Oldest(idx), Newest(idx) - 1)

\* C10: with N = 0 the segmenter returns no line at all.
C10_ZeroCountEmpty ==
    (SegEnded /\ commands_count = 0)
        => (seg_pc = "done" /\ last_commands_lines = <<>>)

\* a scan for N = 0 that met a prompt line and passed output lines before it
C10_Witness ==
    /\ seg_pc = "done"
    /\ commands_count = 0
    /\ PromptLines >= 2
    /\ scan_left >= 1
    /\ scan_left < Len(snapshot) - 1

(***************************************************************************)
(* Vocabulary of the stream claims.                                        *)
(***************************************************************************)
RECURSIVE Flatten(_)
Flatten(ss) == IF ss = <<>> THEN <<>> ELSE Head(ss) \o Flatten(Tail(ss))

IsStop(e) ==
    e.type = "message" /\ e.data.parses /\ e.data.finish_reason = "stop"
\* a message event that carries a content fragment and does not finish
IsFragment(e) ==
    /\ e.type = "message"
    /\ e.data.parses
    /\ e.data.finish_reason = "null"
    /\ e.data.has_content
\* a payload that is no JSON, or lacks finish_reason, or lacks the content
\* it should carry
IsMalformed(e) ==
    /\ e.type = "message"
    /\ \/ ~e.data.parses
       \/ e.data.finish_reason = "absent"
       \/ e.data.finish_reason # "stop" /\ ~e.data.has_content
LastEvent == consumed[Len(consumed)]
StreamEnded == stream_pc \in {"ok", "err", "panic"}

\* optional open, content fragments, then the stop event
FragmentsThenStop ==
    /\ consumed # <<>>
    /\ IsStop(LastEvent)
    /\ \A k \in 1..(Len(consumed) - 1) :
          \/ IsFragment(consumed[k])
          \/ k = 1 /\ consumed[k].type = "open"

\* C3: for a stream of an optional open event, content fragments f1..fk and
\* a stop event, what is rendered for the events before the stop is exactly
\* f1 f2 ... fk, the operation returns success, and the stop event is the
\* last event consumed.
C3_RendersConcatenation ==
    FragmentsThenStop =>
        /\ stream_pc = "ok"
        /\ Flatten(SubSeq(rendered, 1, Len(rendered) - 1))
             = Flatten([k \in 1..(Len(consumed) - 1) |-> consumed[k].data.content])

\* C4 as stated: every status failure ends with the message of the table of
\* the specification, whatever the body; any other status with the generic
\* message that contains the status code.
C4_TableMessages ==
    (stream_pc = "err" /\ LastEvent.type = "invalid_status") =>
        LET code == LastEvent.code
            text == stream_error[Len(stream_error)]
        IN  CASE code = 401 -> text = "Incorrect API key provided"
              [] code = 403 -> text = "Country, region, or territory not supported"
              [] code = 429 -> text = "Exceeded current quota or too many requests"
              [] code = 500 -> text = "Server had an error while processing the request"
              [] code = 503 -> text = "The engine is currently overloaded, try again later"
              [] OTHER -> \E k \in 1..Len(stream_error) :
                             stream_error[k] = ToString(code)

\* C4 amended: every status failure S ends with the message "[S] " followed
\* by the text the code fixes for S, whatever the body.
C4_CodeMessages ==
    (stream_pc = "err" /\ LastEvent.type = "invalid_status") =>
        LET code == LastEvent.code
            text ==
              CASE code = 401 -> "Incorrect API key provided"
                [] code = 403 -> "Country, region, or territory not supported"
                [] code = 429 -> "Exceeded you current quota or too many requests, please check your plan and billin details"
                [] code = 500 -> "Server had an error while processing your request"
                [] code = 503 -> "The engine is currently overloaded, please try again later"
                [] OTHER -> "unexpected openai error occured"
        IN  stream_error = <<"[", ToString(code), "] ", text>>

\* a 503 with a non-empty body, after an event was already consumed
C4_Witness ==
    /\ stream_pc = "err"
    /\ Len(consumed) >= 2
    /\ LastEvent.type = "invalid_status"
    /\ LastEvent.code = 503
    /\ LastEvent.body # ""

\* C5: write_to_screen returns success only if a stop event was received.
C5_SuccessOnlyAfterStop ==
    stream_pc = "ok" => \E k \in 1..Len(consumed) : IsStop(consumed[k])

\* C6: a malformed message event renders nothing, is the last event
\* consumed, and the operation does not end in success.
C6_MalformedAborts ==
    \A k \in 1..Len(consumed) :
        IsMalformed(consumed[k]) =>
            /\ rendered[k] = <<>>
            /\ k = Len(consumed)
            /\ stream_pc \in {"err", "panic"}

(***************************************************************************)
(* Vocabulary of the Loading claims.                                       *)
(***************************************************************************)
Kinds(k) == {i \in 1..Len(tty) : tty[i].kind = k}
LoadEnded == load_pc \in {"returned", "panicked"}

\* C7: when the background unit fails, start writes no frame after the
\* clear, clears the line exactly once, and then panics with the error
\* message; it yields no value and never writes the complete message.
C7_FailurePropagates ==
    task.state = "err" =>
        /\ Kinds("complete") = {}
        /\ load_result.kind # "value"
        /\ LoadEnded =>
              /\ load_pc = "panicked"
              /\ load_result = [kind |-> "panic", value |-> ERROR_MESSAGE]
              /\ Cardinality(Kinds("clear")) = 1
              /\ tty[Len(tty)] = ClearLine

\* a failed unit whose animation wrapped around the glyph cycle
C7_Witness ==
    /\ task.state = "err"
    /\ load_pc = "panicked"
    /\ Cardinality(Kinds("frame")) > LoadingChars

(***************************************************************************)
(* Vocabulary of the claims about main and run.                            *)
(***************************************************************************)
\* C8: whichever way the process ends after main entered raw mode (success,
\* declined confirmation, an error of run, a panic), raw mode is off.
C8_RawModeRestored == main_pc = "exited" => ~raw_mode

\* the process ended by the panic on unparseable event JSON, inside run
C8_Witness ==
    /\ main_pc = "exited"
    /\ exit_status = "panic"
    /\ stream_pc = "panic"
    /\ consumed # <<>>
    /\ ~LastEvent.data.parses

\* C9: a capture of zero lines makes run return the empty-capture error and
\* no request is ever opened; a segmentation whose snapshot has no prompt
\* line is such a capture.
C9_EmptyCaptureAborts ==
    /\ [][(main_pc = "check_empty" /\ terminal_capture = <<>>)
            => /\ main_pc' = "exited"
               /\ exit_status' = "failure"
               /\ main_error' = EMPTY_CAPTURE]_vars
    /\ [](main_error = EMPTY_CAPTURE => (main_pc = "exited" /\ requests_opened = 0))
    /\ [](requests_opened > 0 => terminal_capture # <<>>)
    /\ []((main_pc = "segment" /\ seg_pc = "done" /\ PromptIdx = {})
            => last_commands_lines = <<>>)

\* run ended with the empty-capture error after segmenting for one command
C9_Witness ==
    /\ main_pc = "exited"
    /\ main_error = EMPTY_CAPTURE
    /\ args.commands.name = "Last"
    /\ args.commands.count = 1

(***************************************************************************)
(* Vocabulary of the claims about the prompt probe.                        *)
(***************************************************************************)
ProbeEnded == probe_pc = "done"
ShellSupported == shell_env.set /\ Basename(shell_env.value) \in SupportedShells
\* the lines of the shell's output, and those that are not empty
OutputLines == SplitTerminator(shell_child.stdout, NEWLINE)
NonEmptyLines == SelectSeq(OutputLines, LAMBDA l : l # <<>>)

\* C11: the probe ends in an error, and returns no prompt, when SHELL is
\* missing, when the basename of the shell is not zsh, bash or sh (the error
\* then names the shell), when the shell subprocess fails to spawn, and
\* when the shell subprocess exits with a non-zero status.
C11_ProbeErrors ==
    ProbeEnded =>
        /\ ~shell_env.set => probe_result = ProbeErr(NO_SHELL)
        /\ (shell_env.set /\ ~ShellSupported) =>
              probe_result = ProbeErr(UNSUPPORTED_SHELL \o shell_env.value)
        /\ (ShellSupported /\ shell_child.cwd /\ ~shell_child.spawned) =>
              probe_result = ProbeErr(SHELL_SPAWN)
        /\ (shell_child.spawned /\ ~shell_child.success) =>
              probe_result.kind = "err"

\* C17: when the output of the shell has at least one non-empty line, the
\* probe returns the last non-empty line as the prompt, and the prompt is
\* not the empty string.
C17_LastNonEmptyLine ==
    (ProbeEnded /\ shell_child.spawned /\ shell_child.utf8
        /\ NonEmptyLines # <<>>) =>
        /\ probe_result = ProbeOk(StripAnsi(Last(NonEmptyLines)))
        /\ probe_result.prompt # <<>>

(***************************************************************************)
(* Vocabulary of the claims about one run's request.                       *)
(***************************************************************************)
IsErrorEvent(e) == e.type \in {"invalid_status", "other_error"}
\* the failure the code makes of an error event (main.rs:279, 282)
FailureOf(e) ==
    IF e.type = "invalid_status"
    THEN <<"[", ToString(e.code), "] ", ErrorMessage(e.code)>>
    ELSE <<"unexpected openai error response: ", "StreamError">>

\* C12: a run opens at most one streaming request; an error event is the
\* last event consumed, renders nothing, and its failure is what
\* write_to_screen, and then the run, returns.
C12_NoRetry ==
    /\ requests_opened <= 1
    /\ \A k \in 1..Len(consumed) :
          IsErrorEvent(consumed[k]) =>
              /\ k = Len(consumed)
              /\ rendered[k] = <<>>
              /\ stream_pc = "err"
              /\ stream_error = FailureOf(consumed[k])
              /\ main_pc = "exited" =>
                    /\ exit_status = "failure"
                    /\ main_error = FailureOf(consumed[k])

\* a run that rendered a fragment, then met a stream error, and has ended
C12_Witness ==
    /\ main_pc = "exited"
    /\ requests_opened = 1
    /\ Len(consumed) = 2
    /\ rendered[1] # <<>>
    /\ consumed[2].type = "other_error"
    /\ main_error = OtherBail

(***************************************************************************)
(* Vocabulary of the claims about the lines the segmenter appends.         *)
(***************************************************************************)
\* the snapshot line the last iteration looked at
ScannedLine == snapshot[scan_left + 1]
\* the line the last iteration appended, before or after the final reverse
AppendedLine ==
    IF seg_pc = "done" THEN Head(last_commands_lines)
    ELSE last_commands_lines[Len(last_commands_lines)]
\* the line without its leading prompt
AfterPrompt(line) == SubSeq(line, Len(prompt) + 1, Len(line))

\* C13: a prompt line the segmenter appends (hit counter above 1) is
\* appended as the marker followed by the line without its leading prompt;
\* later occurrences of the prompt text in the line are left as they are.
C13_OnlyPrefixReplaced ==
    (/\ seg_pc \in {"scan", "done"}
     /\ scan_left < Len(snapshot)
     /\ StartsWith(ScannedLine, prompt)
     /\ prompt_hit > 1)
        => AppendedLine = PROMPT_REPLACE_STR \o AfterPrompt(ScannedLine)

\* C14: the output holds neither the newest prompt line nor any line after
\* it: it is a run of scanned snapshot lines that ends just before the
\* newest prompt line, and it is empty when no line starts with the prompt.
C14_NothingFromNewestOn ==
    seg_pc = "done" =>
        LET idx == PromptIdx
        IN  IF idx = {}
            THEN last_commands_lines = <<>>
            ELSE \E first \in (scan_left + 1)..Newest(idx) :
                    ReturnsRange(idx, first, Newest(idx) - 1)

\* one block was returned from a snapshot whose newest prompt line has its
\* own command text and an output line after it
C14_Witness ==
    /\ seg_pc = "done"
    /\ prompt = <<"$">>
    /\ commands_count = 1
    /\ snapshot = <<<<"$">>, <<"$", "a">>, <<"a">>>>
    /\ last_commands_lines = <<PROMPT_REPLACE_STR>>

(***************************************************************************)
(* Vocabulary of the claims about the order and the end of Loading::start. *)
(***************************************************************************)
TaskFinished == task.state \in {"ok", "err", "panicked"}

\* C15: whatever the interleaving with the background unit, start writes
\* frames, then one line clear, then the outcome: no frame follows the
\* clear, the complete message comes right after the clear, and the
\* complete message and the returned value exist only once the unit has
\* completed.
C15_WritesInOrder ==
    /\ \A i \in 1..Len(tty) :
          /\ tty[i].kind \in {"frame", "clear"} =>
                \A j \in 1..(i - 1) : tty[j].kind = "frame"
          /\ tty[i].kind = "complete" =>
                (i = Len(tty) /\ i > 1 /\ tty[i - 1].kind = "clear")
    /\ Kinds("complete") # {} => task.state = "ok"
    /\ load_result.kind # "none" => (TaskFinished /\ LoadEnded)
    /\ LoadEnded =>
          /\ Cardinality(Kinds("clear")) = 1
          /\ IF task.state = "ok"
             THEN /\ tty[Len(tty)] = CompleteLine
                  /\ load_result = [kind |-> "value", value |-> task.value]
             ELSE /\ tty[Len(tty)] = ClearLine
                  /\ load_result.kind = "panic"

\* start returned the unit's value after two frames or more
C15_Witness ==
    /\ load_pc = "returned"
    /\ Cardinality(Kinds("frame")) >= 2
    /\ load_result.value \in TaskValues

\* C16: under fair scheduling of start, once the unit has completed start
\* ends; while the unit never completes start never ends and writes frame
\* after frame.
C16_EndsIffUnitCompletes ==
    /\ TaskFinished ~> LoadEnded
    /\ ([]~TaskFinished) => ([]~LoadEnded /\ []<>(load_pc = "sleep"))

\* the unit completed only after the glyph cycle had wrapped around, and
\* start ended
C16_Witness ==
    /\ LoadEnded
    /\ Len(tty) > MaxFrames
    /\ char_cycle # MaxFrames % LoadingChars

(***************************************************************************)
(* Vocabulary of the claims about the Execute capture.                     *)
(***************************************************************************)
\* from_command is about to deal with the Output of a spawned command
ExecutesSpawned ==
    /\ main_pc = "capture"
    /\ args.commands.name = "Execute"
    /\ command_output'.spawned
RefusesSuccess ==
    /\ main_pc' = "exited"
    /\ exit_status' = "failure"
    /\ main_error' = PROCESS_SUCCEEDED
    /\ terminal_capture' = <<>>
ReturnsOutput ==
    /\ main_pc' = "check_empty"
    /\ terminal_capture' = command_output'.stdout \o command_output'.stderr
NothingSent ==
    main_error = PROCESS_SUCCEEDED =>
        (main_pc = "exited" /\ terminal_capture = <<>> /\ requests_opened = 0)

\* C18: for a spawned command from_command returns the error (and nothing
\* is captured or sent) exactly when force is false and the command exited
\* successfully; in every other case it returns the stdout lines followed by
\* the stderr lines.
C18_CapturedUnlessSucceeded ==
    /\ [][ExecutesSpawned =>
            IF ~args.commands.force /\ command_output'.success
            THEN RefusesSuccess
            ELSE ReturnsOutput]_vars
    /\ []NothingSent

\* C18 as the code has it: the lines are returned when the output is valid
\* UTF-8; output that is not makes from_command panic, with nothing
\* captured or sent.
C18_CapturedIfDecodable ==
    /\ [][ExecutesSpawned =>
            IF ~args.commands.force /\ command_output'.success
            THEN RefusesSuccess
            ELSE IF command_output'.utf8
            THEN ReturnsOutput
            ELSE /\ main_pc' = "exited"
                 /\ exit_status' = "panic"
                 /\ terminal_capture' = <<>>
                 /\ requests_opened' = 0]_vars
    /\ []NothingSent

\* a forced capture of a command that succeeded and wrote to both pipes
C18_Witness ==
    /\ main_pc = "check_empty"
    /\ args.commands.name = "Execute"
    /\ args.commands.force
    /\ command_output.spawned
    /\ command_output.success
    /\ terminal_capture = <<<<"o">>, <<"e">>>>

(***************************************************************************)
(* Vocabulary of the claims about the arithmetic of the segmenter and the  *)
(* confirmation of a run.                                                  *)
(***************************************************************************)
\* the prompt lines the scan has met so far
HitsMet == Cardinality({k \in PromptIdx : k > scan_left})

\* C19: for every count in 0..255 and every snapshot the stop threshold
\* count + 1 and the hit counter stay within the u8 range (no overflow
\* panic, no wrap-around), and the scan stops exactly at hit number
\* count + 1 or at the end of the snapshot.
C19_ArithmeticInRange ==
    /\ seg_pc # "panic"
    /\ seg_pc \in {"scan", "done"} =>
          /\ prompt_hit = HitsMet
          /\ HitsMet > 0 => commands_count + 1 <= U8Max
          /\ HitsMet <= commands_count + 1
    /\ seg_pc = "done" => (HitsMet = commands_count + 1 \/ scan_left = 0)

Answered == confirm_byte # ""
SaidYes == confirm_byte \in {"y", "Y"}

====
